---- MODULE Spec2Model ----
(***************************************************************************)
(* Boolean review search (baseline0.py), the rating filter built on it     *)
(* (method1_rating.py) and the Review record (review.py).                  *)
(*                                                                         *)
(* Strings are sequences of one-character strings, so that tokenization,   *)
(* lowercasing, the split on ':' and the parse of an integer are computed  *)
(* as the code computes them.  Document positions are 0-based, as          *)
(* enumerate() numbers them: position d is reviews[d + 1].                 *)
(***************************************************************************)
EXTENDS Integers, Sequences, FiniteSets, TLC

VARIABLES
    reviews,         \* BaselineBooleanSearch.reviews: the corpus, a sequence of Review
    inverted_index,  \* BaselineBooleanSearch.inverted_index: term -> set of positions
    positive_words,  \* RatingFilterSearch.positive_words
    negative_words,  \* RatingFilterSearch.negative_words
    pc,              \* where the caller is: "idle", "returned", ...
    call,            \* the arguments of the last search call
    results,         \* the list the last search returned: <<doc_id, score>> pairs
    ctor_args,       \* the arguments of the last Review(...) call
    review,          \* the fields of the Review it built
    raised,          \* the exception that call propagated, "none" when it returned
    opinion_terms,   \* the argument of the last _get_opinion_polarity call
    polarity         \* what it returned

vars == <<reviews, inverted_index, positive_words, negative_words, pc, call,
          results, ctor_args, review, raised, opinion_terms, polarity>>

-----------------------------------------------------------------------------
(* Bounds of the model. *)

MaxDocs == 2
MaxQueryLen == 4
MaxTopK == 2
MaxOpinionTerms == 3
MaxFieldLen == 2

-----------------------------------------------------------------------------
(* Characters and tokenization: baseline0.py, TOKEN_PATTERN and _tokenize. *)

UpperLetters == <<"A","B","C","D","E","F","G","H","I","J","K","L","M",
                  "N","O","P","Q","R","S","T","U","V","W","X","Y","Z">>
LowerLetters == <<"a","b","c","d","e","f","g","h","i","j","k","l","m",
                  "n","o","p","q","r","s","t","u","v","w","x","y","z">>
Digits == <<"0","1","2","3","4","5","6","7","8","9">>

Range(s) == {s[i] : i \in DOMAIN s}

UpperSet == Range(UpperLetters)
DigitSet == Range(Digits)

\* the character class [A-Za-z0-9_] of TOKEN_PATTERN
TOKEN_PATTERN == UpperSet \cup Range(LowerLetters) \cup DigitSet \cup {"_"}

\* str.lower() on the letters it changes
LowerOf ==
    [c \in UpperSet |-> LowerLetters[CHOOSE i \in DOMAIN UpperLetters : UpperLetters[i] = c]]

\* str.lower() on one character
LowerChar(c) == IF c \in UpperSet THEN LowerOf[c] ELSE c

lower(text) == [i \in DOMAIN text |-> LowerChar(text[i])]

\* TOKEN_PATTERN.finditer(text): the maximal runs of pattern characters, left to
\* right; cur is the run being read at position i
RECURSIVE finditer(_, _, _)
finditer(text, i, cur) ==
    IF i > Len(text)
    THEN (IF cur = <<>> THEN <<>> ELSE <<cur>>)
    ELSE IF text[i] \in TOKEN_PATTERN
         THEN finditer(text, i + 1, Append(cur, text[i]))
         ELSE (IF cur = <<>> THEN <<>> ELSE <<cur>>) \o finditer(text, i + 1, <<>>)

MinTokenLen == 2

_tokenize(text, lowercase_) ==
    IF text = <<>> THEN <<>>
    ELSE LET t == IF lowercase_ THEN lower(text) ELSE text
             tokens == finditer(t, 1, <<>>)
         IN  SelectSeq(tokens, LAMBDA tok : Len(tok) >= MinTokenLen)

DEFAULT_STOPWORDS ==
    { <<"t","h","e">>, <<"a">>, <<"a","n">>, <<"a","n","d">>, <<"o","r">>,
      <<"o","f">>, <<"t","o">>, <<"i","n">>, <<"i","s">>, <<"i","t">>,
      <<"f","o","r">>, <<"o","n">>, <<"t","h","i","s">>, <<"t","h","a","t">> }

\* BaselineBooleanSearch.__init__ defaults, which every builder of the repository uses
stopwords == DEFAULT_STOPWORDS
lowercase == TRUE

-----------------------------------------------------------------------------
(* Index construction: BaselineBooleanSearch._build_index. *)

EmptyIndex == [t \in {} |-> {}]

\* postings = self.inverted_index.setdefault(token, set()); postings.add(doc_id)
AddPosting(index, token, doc_id) ==
    [t \in DOMAIN index \cup {token} |->
        IF t = token
        THEN (IF t \in DOMAIN index THEN index[t] ELSE {}) \cup {doc_id}
        ELSE index[t]]

\* as IndexTokens, but without the stopword test
RECURSIVE IndexTokensNoStop(_, _, _, _)
IndexTokensNoStop(index, tokens, i, doc_id) ==
    IF i > Len(tokens) THEN index
    ELSE IndexTokensNoStop(AddPosting(index, tokens[i], doc_id), tokens, i + 1, doc_id)

\* the inner loop over one document's tokens, from token i on
RECURSIVE IndexTokens(_, _, _, _)
IndexTokens(index, tokens, i, doc_id) ==
    IF i > Len(tokens) THEN index
    ELSE IF tokens[i] \in stopwords
         THEN IndexTokens(index, tokens, i + 1, doc_id)
         ELSE IndexTokens(AddPosting(index, tokens[i], doc_id), tokens, i + 1, doc_id)

\* the outer loop over enumerate(self.reviews), from position doc_id on
RECURSIVE IndexDocs(_, _, _)
IndexDocs(index, revs, doc_id) ==
    IF doc_id >= Len(revs) THEN index
    ELSE IndexDocs(
            IndexTokens(index, _tokenize(revs[doc_id + 1].text, lowercase), 1, doc_id),
            revs, doc_id + 1)

_build_index(revs) == IndexDocs(EmptyIndex, revs, 0)

-----------------------------------------------------------------------------
(* Query helpers of BaselineBooleanSearch. *)

\* as _normalize_query, but without the stopword filter
_normalize_query_keep_stopwords(query) == _tokenize(query, lowercase)

_normalize_query(query) ==
    SelectSeq(_tokenize(query, lowercase), LAMBDA t : t \notin stopwords)

HasColon(query) == \E i \in DOMAIN query : query[i] = ":"

\* query.split(':', 1): the text before the first ':' and everything after it
split_once(query) ==
    LET i == CHOOSE k \in DOMAIN query :
                 query[k] = ":" /\ \A j \in 1..(k - 1) : query[j] # ":"
    IN  <<SubSeq(query, 1, i - 1), SubSeq(query, i + 1, Len(query))>>

_parse_opinion_query(query) ==
    LET parts == split_once(query)
    IN  [aspect |-> _normalize_query(parts[1]), opinion |-> _normalize_query(parts[2])]

\* self.inverted_index.get(term, set())
postings_get(index, term) == IF term \in DOMAIN index THEN index[term] ELSE {}

\* result = set(); for term in terms: result |= get(term), from term i on
RECURSIVE UnionFrom(_, _, _, _)
UnionFrom(index, terms, i, result) ==
    IF i > Len(terms) THEN result
    ELSE UnionFrom(index, terms, i + 1, result \cup postings_get(index, terms[i]))

\* as _get_docs_with_any_term, but demanding every term (&= in place of |=)
RECURSIVE AllFrom(_, _, _, _)
AllFrom(index, terms, i, result) ==
    IF i > Len(terms) THEN result
    ELSE AllFrom(index, terms, i + 1, result \cap postings_get(index, terms[i]))

docs_with_all_terms(index, terms) ==
    IF terms = <<>> THEN {} ELSE AllFrom(index, terms, 2, postings_get(index, terms[1]))

_get_docs_with_any_term(index, terms) == UnionFrom(index, terms, 1, {})

\* as match_count, but over set(query_terms): each distinct term counted once
match_count_distinct(query_terms, doc_token_set, i) ==
    Cardinality({ query_terms[k] : k \in i..Len(query_terms) } \cap doc_token_set)

\* sum(1 for t in query_terms if t in doc_token_set), from entry i on
RECURSIVE match_count(_, _, _)
match_count(query_terms, doc_token_set, i) ==
    IF i > Len(query_terms) THEN 0
    ELSE (IF query_terms[i] \in doc_token_set THEN 1 ELSE 0)
         + match_count(query_terms, doc_token_set, i + 1)

\* one <<doc_id, score>> pair of _score_candidates
score_one(revs, doc_id, query_terms) ==
    LET doc_tokens == _tokenize(revs[doc_id + 1].text, lowercase)
        doc_token_set == Range(doc_tokens)
    IN  <<doc_id, match_count(query_terms, doc_token_set, 1)>>

\* `for doc_id in candidates` visits the set in an order the language does not fix:
\* iteration is a sequence holding each candidate once
_score_candidates(revs, iteration, query_terms) ==
    [i \in DOMAIN iteration |-> score_one(revs, iteration[i], query_terms)]

\* as sort_key, but without the doc_id tie-break: key=lambda x: -x[1]
sort_key_score_only(x) == <<0 - x[2], 0>>

\* key=lambda x: (-x[1], x[0]) on a (doc_id, score) tuple
sort_key(x) == <<0 - x[2], x[1]>>

\* tuple comparison a < b on two-element keys
key_less(a, b) == a[1] < b[1] \/ (a[1] = b[1] /\ a[2] < b[2])

\* list.sort is stable: x goes after every element whose key is not greater
RECURSIVE insert_sorted(_, _)
insert_sorted(sorted, x) ==
    IF sorted = <<>> THEN <<x>>
    ELSE IF key_less(sort_key(x), sort_key(Head(sorted)))
         THEN <<x>> \o sorted
         ELSE <<Head(sorted)>> \o insert_sorted(Tail(sorted), x)

RECURSIVE sort_from(_, _, _)
sort_from(scores, i, sorted) ==
    IF i > Len(scores) THEN sorted
    ELSE sort_from(scores, i + 1, insert_sorted(sorted, scores[i]))

sort_scores(scores) == sort_from(scores, 1, <<>>)

\* scores[:top_k]
slice_to(scores, top_k) ==
    LET n == Len(scores)
        stop == IF top_k < 0 THEN (IF n + top_k < 0 THEN 0 ELSE n + top_k)
                ELSE (IF top_k > n THEN n ELSE top_k)
    IN  SubSeq(scores, 1, stop)

\* the result list: one BooleanSearchResult(review=self.reviews[doc_id], score) per
\* pair, kept as the pair, doc_id naming the review object
rank(revs, candidates, query_terms, top_k, order) ==
    LET iteration == SelectSeq(order, LAMBDA d : d \in candidates)
        scores == sort_scores(_score_candidates(revs, iteration, query_terms))
        top == slice_to(scores, top_k)
    IN  [i \in DOMAIN top |-> [doc_id |-> top[i][1], score |-> top[i][2]]]

-----------------------------------------------------------------------------
(* BaselineBooleanSearch._regular_search and BaselineBooleanSearch.search.  *)
(* Each returns the result list and the index as the call leaves it.        *)

\* candidates &= s for s in postings_sets[1:], from term i on
RECURSIVE IntersectFrom(_, _, _, _)
IntersectFrom(index, terms, i, candidates) ==
    IF i > Len(terms) THEN candidates
    ELSE IntersectFrom(index, terms, i + 1, candidates \cap postings_get(index, terms[i]))

\* as and_candidates, but without the copy: candidates = postings_sets[0], so the
\* in-place &= shrinks the postings set the index holds for the first term
and_candidates_aliased(index, terms) ==
    LET c == IntersectFrom(index, terms, 2, postings_get(index, terms[1]))
    IN  [candidates     |-> c,
         inverted_index |-> IF terms[1] \in DOMAIN index
                            THEN [index EXCEPT ![terms[1]] = c] ELSE index]

\* mode "and": candidates = set(postings_sets[0]) is a copy, so the in-place &=
\* changes the copy and never the postings set held by the index
and_candidates(index, terms) ==
    [candidates     |-> IntersectFrom(index, terms, 2, postings_get(index, terms[1])),
     inverted_index |-> index]

\* as or_candidates, but with candidates = s in place of candidates |= s
or_candidates_last(index, terms) ==
    [candidates     |-> postings_get(index, terms[Len(terms)]),
     inverted_index |-> index]

\* mode "or": candidates = set(); candidates |= s for every s
or_candidates(index, terms) ==
    [candidates     |-> UnionFrom(index, terms, 1, {}),
     inverted_index |-> index]

_regular_search(index, revs, terms, mode, top_k, order) ==
    IF terms = <<>> THEN [results |-> <<>>, inverted_index |-> index]
    ELSE LET c == IF mode = "and" THEN and_candidates(index, terms)
                  ELSE or_candidates(index, terms)
         IN  IF c.candidates = {}
             THEN [results |-> <<>>, inverted_index |-> c.inverted_index]
             ELSE [results        |-> rank(revs, c.candidates, terms, top_k, order),
                   inverted_index |-> c.inverted_index]

\* (aspect1 OR aspect2 OR ...) AND (opinion1 OR opinion2 OR ...)
opinion_candidates(index, aspect_terms, opinion_terms_) ==
    _get_docs_with_any_term(index, aspect_terms)
        \cap _get_docs_with_any_term(index, opinion_terms_)

\* as fallback_terms, but from the opinion half of the split query
fallback_terms_opinion_half(query) == _parse_opinion_query(query).opinion

\* the fallback of an aspect:opinion query with an empty side:
\* terms = self._normalize_query(query), on the whole raw string
fallback_terms(query) == _normalize_query(query)

search(index, revs, query, mode, top_k, order) ==
    IF HasColon(query)
    THEN LET p == _parse_opinion_query(query)
         IN  IF p.aspect = <<>> \/ p.opinion = <<>>
             THEN _regular_search(index, revs, fallback_terms(query), mode, top_k, order)
             ELSE LET candidates == opinion_candidates(index, p.aspect, p.opinion)
                      all_query_terms == p.aspect \o p.opinion
                  IN  IF candidates = {}
                      THEN [results |-> <<>>, inverted_index |-> index]
                      ELSE [results |-> rank(revs, candidates, all_query_terms, top_k, order),
                            inverted_index |-> index]
    ELSE _regular_search(index, revs, _normalize_query(query), mode, top_k, order)

-----------------------------------------------------------------------------
(* RatingFilterSearch: _get_opinion_polarity and search.                    *)

\* as lexicon_count, but over set(opinion_terms): each distinct term counted once
lexicon_count_distinct(terms, words, i) ==
    Cardinality({ terms[k] : k \in i..Len(terms) } \cap words)

\* sum(1 for term in opinion_terms if term in words), from entry i on
RECURSIVE lexicon_count(_, _, _)
lexicon_count(terms, words, i) ==
    IF i > Len(terms) THEN 0
    ELSE (IF terms[i] \in words THEN 1 ELSE 0) + lexicon_count(terms, words, i + 1)

_get_opinion_polarity(terms, pos_words, neg_words) ==
    LET positive_count == lexicon_count(terms, pos_words, 1)
        negative_count == lexicon_count(terms, neg_words, 1)
    IN  IF positive_count > negative_count THEN "positive"
        ELSE IF negative_count > positive_count THEN "negative"
        ELSE "neutral"

PositiveThreshold == 3

\* as rating_filter, but with >= and < in place of > and <=
rating_filter_inclusive(revs, candidates, pol) ==
    IF pol = "positive"
    THEN {c \in candidates : revs[c + 1].rating >= PositiveThreshold}
    ELSE IF pol = "negative"
         THEN {c \in candidates : revs[c + 1].rating < PositiveThreshold}
         ELSE candidates

\* the two set comprehensions over candidates, one per polarity
rating_filter(revs, candidates, pol) ==
    IF pol = "positive"
    THEN {c \in candidates : revs[c + 1].rating > PositiveThreshold}
    ELSE IF pol = "negative"
         THEN {c \in candidates : revs[c + 1].rating <= PositiveThreshold}
         ELSE candidates

method1_search(index, revs, pos_words, neg_words, query, top_k, order) ==
    IF ~HasColon(query)
    THEN search(index, revs, query, "and", top_k, order)
    ELSE LET p == _parse_opinion_query(query)
         IN  IF p.aspect = <<>> \/ p.opinion = <<>>
             THEN search(index, revs, query, "and", top_k, order)
             ELSE LET candidates == opinion_candidates(index, p.aspect, p.opinion)
                  IN  IF candidates = {}
                      THEN [results |-> <<>>, inverted_index |-> index]
                      ELSE LET pol == _get_opinion_polarity(p.opinion, pos_words, neg_words)
                               kept == rating_filter(revs, candidates, pol)
                           IN  IF kept = {}
                               THEN [results |-> <<>>, inverted_index |-> index]
                               ELSE [results |-> rank(revs, kept, p.aspect \o p.opinion,
                                                      top_k, order),
                                     inverted_index |-> index]

-----------------------------------------------------------------------------
(* The inputs the model draws from.                                         *)

\* words as a user types them: an aspect word (capitalised), a positive and a
\* negative opinion word, a stopword
wAu == <<"A","u">>
wOk == <<"o","k">>
wNg == <<"n","g">>
wIt == <<"i","t">>
Colon == <<":">>

QueryPieces == { wAu, wOk, wNg, wIt, Colon }

\* a typed query: at most MaxQueryLen pieces, words set apart by one space
RECURSIVE JoinPieces(_, _)
JoinPieces(pieces, i) ==
    IF i > Len(pieces) THEN <<>>
    ELSE pieces[i]
         \o (IF i < Len(pieces) /\ pieces[i] # Colon /\ pieces[i + 1] # Colon
             THEN <<" ">> ELSE <<>>)
         \o JoinPieces(pieces, i + 1)

Queries ==
    { JoinPieces(pieces, 1) :
        pieces \in UNION { [1..n -> QueryPieces] : n \in 0..MaxQueryLen } }

\* review bodies: "au ok", "OK it au ng" (upper case, a stopword), "ng k ng" (a
\* repeated token, a one-character run), "auok au ng" (a run-together token)
TextA == <<"a","u"," ","o","k">>
TextB == <<"O","K"," ","i","t"," ","a","u"," ","n","g">>
TextC == <<"n","g"," ","k"," ","n","g">>
TextD == <<"a","u","o","k"," ","a","u"," ","n","g">>

\* Review objects as load_reviews leaves them: rating an int, 0 when unknown
DocSet ==
    { [id |-> "A", text |-> TextA, rating |-> 4],
      [id |-> "B", text |-> TextB, rating |-> 3],
      [id |-> "C", text |-> TextC, rating |-> 0],
      [id |-> "D", text |-> TextD, rating |-> 5] }

Corpora == UNION { [1..n -> DocSet] : n \in 0..MaxDocs }

\* the lexicon files as loaded: "ok" is a positive word, "ng" a negative one
LoadedPositive == { wOk }
LoadedNegative == { wNg }

\* every order in which a set of positions below n can be visited
Orders(n) ==
    { o \in [1..n -> 0..(n - 1)] : \A i, j \in 1..n : i # j => o[i] # o[j] }

NoCall == [engine |-> "none", query |-> <<>>, mode |-> "and", top_k |-> 0]

-----------------------------------------------------------------------------
(* The search engine: construction, then searches from the caller's loop.   *)

Init ==
    /\ reviews \in Corpora
    /\ inverted_index = _build_index(reviews)
    /\ positive_words = LoadedPositive
    /\ negative_words = LoadedNegative
    /\ pc = "idle"
    /\ call = NoCall
    /\ results = <<>>
    /\ ctor_args = <<>>
    /\ review = <<>>
    /\ raised = "none"
    /\ opinion_terms = <<>>
    /\ polarity = "none"

\* engine.search(query, mode=mode, top_k=top_k) on the baseline engine
BaselineSearch ==
    /\ pc = "idle"
    /\ \E query \in Queries, mode \in {"and", "or"}, top_k \in 0..MaxTopK,
          order \in Orders(Len(reviews)) :
          LET r == search(inverted_index, reviews, query, mode, top_k, order)
          IN  /\ call' = [engine |-> "baseline", query |-> query,
                          mode |-> mode, top_k |-> top_k]
              /\ results' = r.results
              /\ inverted_index' = r.inverted_index
    /\ pc' = "returned"
    /\ UNCHANGED <<reviews, positive_words, negative_words,
                   ctor_args, review, raised, opinion_terms, polarity>>

\* engine.search(query, top_k=top_k) on the Method-1 engine
Method1Search ==
    /\ pc = "idle"
    /\ \E query \in Queries, top_k \in 0..MaxTopK, order \in Orders(Len(reviews)) :
          LET r == method1_search(inverted_index, reviews, positive_words,
                                  negative_words, query, top_k, order)
          IN  /\ call' = [engine |-> "method1", query |-> query,
                          mode |-> "and", top_k |-> top_k]
              /\ results' = r.results
              /\ inverted_index' = r.inverted_index
    /\ pc' = "returned"
    /\ UNCHANGED <<reviews, positive_words, negative_words,
                   ctor_args, review, raised, opinion_terms, polarity>>

\* the same call made again on the same engine
RepeatSearch ==
    /\ pc = "returned"
    /\ \E order \in Orders(Len(reviews)) :
          LET r == IF call.engine = "baseline"
                   THEN search(inverted_index, reviews, call.query, call.mode,
                               call.top_k, order)
                   ELSE method1_search(inverted_index, reviews, positive_words,
                                       negative_words, call.query, call.top_k, order)
          IN  /\ results' = r.results
              /\ inverted_index' = r.inverted_index
    /\ UNCHANGED <<reviews, positive_words, negative_words, pc, call,
                   ctor_args, review, raised, opinion_terms, polarity>>

\* the caller is done with the results and asks for the next query
NextQuery ==
    /\ pc = "returned"
    /\ pc' = "idle"
    /\ call' = NoCall
    /\ results' = <<>>
    /\ UNCHANGED <<reviews, inverted_index, positive_words, negative_words,
                   ctor_args, review, raised, opinion_terms, polarity>>

\* the caller asks the baseline engine the query it just ran in "and" mode again,
\* now in "or" mode
SearchAgainAsOr ==
    /\ pc = "returned"
    /\ call.engine = "baseline"
    /\ call.mode = "and"
    /\ \E order \in Orders(Len(reviews)) :
          LET r == search(inverted_index, reviews, call.query, "or", call.top_k, order)
          IN  /\ call' = [call EXCEPT !.mode = "or"]
              /\ results' = r.results
              /\ inverted_index' = r.inverted_index
    /\ UNCHANGED <<reviews, positive_words, negative_words, pc,
                   ctor_args, review, raised, opinion_terms, polarity>>

Next == BaselineSearch \/ Method1Search \/ RepeatSearch \/ SearchAgainAsOr \/ NextQuery

Spec == Init /\ [][Next]_vars

-----------------------------------------------------------------------------
(* Review construction: review.py, Review.__init__ and Review._safe_int.    *)
(* A field value is None, an int, a str or the float NaN that pandas puts   *)
(* where a cell is missing.                                                 *)

PyNone == [kind |-> "none"]
PyNaN == [kind |-> "nan"]
PyInt(n) == [kind |-> "int", val |-> n]
PyStr(chars) == [kind |-> "str", val |-> chars]

\* bool(value), as `if rating` tests it
truthy(v) ==
    CASE v.kind = "none" -> FALSE
      [] v.kind = "int"  -> v.val # 0
      [] v.kind = "str"  -> v.val # <<>>
      [] v.kind = "nan"  -> TRUE

Whitespace == {" "}

RECURSIVE lstrip(_)
lstrip(chars) ==
    IF chars # <<>> /\ Head(chars) \in Whitespace THEN lstrip(Tail(chars)) ELSE chars

RECURSIVE rstrip(_)
rstrip(chars) ==
    IF chars # <<>> /\ chars[Len(chars)] \in Whitespace
    THEN rstrip(SubSeq(chars, 1, Len(chars) - 1)) ELSE chars

DigitValueOf == [c \in DigitSet |-> (CHOOSE i \in DOMAIN Digits : Digits[i] = c) - 1]

DigitValue(c) == DigitValueOf[c]

RECURSIVE DecimalValue(_, _)
DecimalValue(chars, acc) ==
    IF chars = <<>> THEN acc
    ELSE DecimalValue(Tail(chars), 10 * acc + DigitValue(Head(chars)))

\* int(value): the int, or the exception it raises.  A str is stripped, may
\* carry one sign, and must then be decimal digits only
py_int(v) ==
    CASE v.kind = "int"  -> [exc |-> "none", val |-> v.val]
      [] v.kind = "none" -> [exc |-> "TypeError", val |-> 0]
      [] v.kind = "nan"  -> [exc |-> "ValueError", val |-> 0]
      [] v.kind = "str"  ->
            LET body == rstrip(lstrip(v.val))
                signed == body # <<>> /\ Head(body) \in {"-", "+"}
                digits == IF signed THEN Tail(body) ELSE body
            IN  IF digits # <<>> /\ \A i \in DOMAIN digits : digits[i] \in DigitSet
                THEN [exc |-> "none",
                      val |-> IF signed /\ Head(body) = "-"
                              THEN 0 - DecimalValue(digits, 0)
                              ELSE DecimalValue(digits, 0)]
                ELSE [exc |-> "ValueError", val |-> 0]

\* Review._safe_int: 0 for None and '', 0 when int() raises ValueError or TypeError
_safe_int(v) ==
    IF v.kind = "none" \/ v = PyStr(<<>>) THEN 0
    ELSE LET r == py_int(v)
         IN  IF r.exc \in {"ValueError", "TypeError"} THEN 0 ELSE r.val

\* self.rating = int(rating) if rating else 0: no handler around int()
rating_field(v) ==
    IF truthy(v) THEN py_int(v) ELSE [exc |-> "none", val |-> 0]

\* Review.__init__: the object's fields, or the exception that leaves it
Review__init__(rating, helpful, out_of_helpful) ==
    LET r == rating_field(rating)
    IN  IF r.exc # "none"
        THEN [exc |-> r.exc, obj |-> <<>>]
        ELSE [exc |-> "none",
              obj |-> [rating         |-> r.val,
                       helpful        |-> _safe_int(helpful),
                       out_of_helpful |-> _safe_int(out_of_helpful)]]

FieldChars == {"7", "-", "x", " "}

FieldStrings == UNION { [1..n -> FieldChars] : n \in 0..MaxFieldLen }

FieldValues ==
    {PyNone, PyNaN, PyInt(0), PyInt(4)} \cup { PyStr(chars) : chars \in FieldStrings }

InitReview ==
    /\ reviews = <<>>
    /\ inverted_index = EmptyIndex
    /\ positive_words = {}
    /\ negative_words = {}
    /\ pc = "load"
    /\ call = NoCall
    /\ results = <<>>
    /\ ctor_args = <<>>
    /\ review = <<>>
    /\ raised = "none"
    /\ opinion_terms = <<>>
    /\ polarity = "none"

\* load_reviews builds one Review from a row of the data frame
ConstructReview ==
    /\ pc = "load"
    /\ \E rating \in FieldValues, helpful \in FieldValues, out_of_helpful \in FieldValues :
          LET r == Review__init__(rating, helpful, out_of_helpful)
          IN  /\ ctor_args' = [rating |-> rating, helpful |-> helpful,
                               out_of_helpful |-> out_of_helpful]
              /\ review' = r.obj
              /\ raised' = r.exc
    /\ pc' = "constructed"
    /\ UNCHANGED <<reviews, inverted_index, positive_words, negative_words,
                   call, results, opinion_terms, polarity>>

\* the loop of load_reviews moves to the next row
NextRow ==
    /\ pc = "constructed"
    /\ raised = "none"
    /\ pc' = "load"
    /\ ctor_args' = <<>>
    /\ review' = <<>>
    /\ UNCHANGED <<reviews, inverted_index, positive_words, negative_words,
                   call, results, raised, opinion_terms, polarity>>

NextReview == ConstructReview \/ NextRow

SpecReview == InitReview /\ [][NextReview]_vars

-----------------------------------------------------------------------------
(* Polarity classification on its own: any lexicons, any opinion terms.     *)

LexiconTerms == { wOk, wNg, <<"a","u">> }

OpinionTermLists == UNION { [1..n -> LexiconTerms] : n \in 0..MaxOpinionTerms }

InitPolarity ==
    /\ reviews = <<>>
    /\ inverted_index = EmptyIndex
    /\ positive_words \in SUBSET LexiconTerms
    /\ negative_words \in SUBSET LexiconTerms
    /\ pc = "idle"
    /\ call = NoCall
    /\ results = <<>>
    /\ ctor_args = <<>>
    /\ review = <<>>
    /\ raised = "none"
    /\ opinion_terms = <<>>
    /\ polarity = "none"

\* polarity = self._get_opinion_polarity(opinion_terms)
Classify ==
    /\ pc = "idle"
    /\ \E terms \in OpinionTermLists :
          /\ opinion_terms' = terms
          /\ polarity' = _get_opinion_polarity(terms, positive_words, negative_words)
    /\ pc' = "classified"
    /\ UNCHANGED <<reviews, inverted_index, positive_words, negative_words,
                   call, results, ctor_args, review, raised>>

\* the next query is classified afresh
NextClassify ==
    /\ pc = "classified"
    /\ pc' = "idle"
    /\ opinion_terms' = <<>>
    /\ polarity' = "none"
    /\ UNCHANGED <<reviews, inverted_index, positive_words, negative_words,
                   call, results, ctor_args, review, raised>>

NextPolarity == Classify \/ NextClassify

SpecPolarity == InitPolarity /\ [][NextPolarity]_vars

-----------------------------------------------------------------------------
(* What the properties below speak of, stated over the state.               *)

Positions == 0..(Len(reviews) - 1)

\* the postings of a term in the index the engine holds
Postings(t) == IF t \in DOMAIN inverted_index THEN inverted_index[t] ELSE {}

\* the token set of the body of the document at position d
DocTokenSet(d) == Range(_tokenize(reviews[d + 1].text, lowercase))

ResultDocs == { results[i].doc_id : i \in DOMAIN results }

Min(a, b) == IF a < b THEN a ELSE b

\* the number of entries of a term list that are members of a set
EntriesIn(terms, words) == Cardinality({ i \in DOMAIN terms : terms[i] \in words })

\* The last call, read off the state:
\*   aspect, opinion  the terms of the text before the first ':' and after it
\*   isAO             an aspect:opinion query with terms on both sides
\*   isFallback       a query with ':' and a side without terms
\*   terms            the term list the call scores with
\*   tokens           the token set of each document's body
\*   boolean          documents in the postings of some aspect term and of some
\*                    opinion term
\*   holding          documents whose body holds some aspect and some opinion term
\*   polarity         of the opinion terms, counting the entries in each lexicon
\*   admitted         the boolean candidates whose rating the polarity admits
\*   candidates       the set the call ranks
\*   score, distinct  per document, the entries of terms that occur in it, and the
\*                    distinct terms that do
CallView ==
    LET q == call.query
        colon == HasColon(q)
        p == IF colon THEN _parse_opinion_query(q)
             ELSE [aspect |-> <<>>, opinion |-> <<>>]
        ao == colon /\ p.aspect # <<>> /\ p.opinion # <<>>
        terms == IF ao THEN p.aspect \o p.opinion ELSE _normalize_query(q)
        toks == [d \in Positions |-> DocTokenSet(d)]
        boolean ==
            { d \in Positions :
                /\ \E i \in DOMAIN p.aspect : d \in Postings(p.aspect[i])
                /\ \E i \in DOMAIN p.opinion : d \in Postings(p.opinion[i]) }
        holding ==
            { d \in Positions :
                /\ \E i \in DOMAIN p.aspect : p.aspect[i] \in toks[d]
                /\ \E i \in DOMAIN p.opinion : p.opinion[i] \in toks[d] }
        pcount == EntriesIn(p.opinion, positive_words)
        ncount == EntriesIn(p.opinion, negative_words)
        pol == IF pcount > ncount THEN "POSITIVE"
               ELSE IF ncount > pcount THEN "NEGATIVE" ELSE "NEUTRAL"
        admitted ==
            { d \in boolean :
                CASE pol = "POSITIVE" -> reviews[d + 1].rating > 3
                  [] pol = "NEGATIVE" -> reviews[d + 1].rating <= 3
                  [] OTHER -> TRUE }
        candidates ==
            IF ao THEN (IF call.engine = "method1" THEN admitted ELSE boolean)
            ELSE IF terms = <<>> THEN {}
            ELSE IF call.mode = "and"
                 THEN { d \in Positions : \A i \in DOMAIN terms : d \in Postings(terms[i]) }
                 ELSE { d \in Positions : \E i \in DOMAIN terms : d \in Postings(terms[i]) }
    IN  [aspect |-> p.aspect, opinion |-> p.opinion, isAO |-> ao,
         isFallback |-> colon /\ ~ao, terms |-> terms, tokens |-> toks,
         boolean |-> boolean, holding |-> holding, polarity |-> pol,
         admitted |-> admitted, candidates |-> candidates,
         score |-> [d \in Positions |-> EntriesIn(terms, toks[d])],
         distinct |-> [d \in Positions |-> Cardinality(Range(terms) \cap toks[d])]]

-----------------------------------------------------------------------------
\* C1: a baseline aspect:opinion search with both sides non-empty and a limit of at
\* least the corpus size returns exactly the documents that are in the postings of
\* some aspect term and in the postings of some opinion term, which are the
\* documents whose body holds at least one aspect term and at least one opinion term.
C1_AspectOpinionCandidates ==
    (pc = "returned" /\ call.engine = "baseline" /\ call.top_k >= Len(reviews))
    => LET v == CallView
       IN  v.isAO => (ResultDocs = v.boolean /\ ResultDocs = v.holding)

\* a search with two aspect terms that returned a document holding only the second
\* of them, and left another document out
C1_Witness ==
    /\ pc = "returned" /\ call.engine = "baseline" /\ call.top_k >= Len(reviews)
    /\ LET v == CallView
       IN  /\ v.isAO
           /\ Len(v.aspect) >= 2
           /\ \E d \in ResultDocs : v.aspect[1] \notin v.tokens[d]
           /\ \E d \in Positions : d \notin ResultDocs

-----------------------------------------------------------------------------
\* the result list of the last call is its candidates ranked and cut to the limit
C2_Ranked ==
    pc = "returned" =>
        LET v == CallView
            C == v.candidates
        IN  /\ Len(results) = Min(call.top_k, Cardinality(C))
            /\ \A i \in DOMAIN results : results[i].doc_id \in C
            /\ \A i, j \in DOMAIN results : i # j => results[i].doc_id # results[j].doc_id
            /\ \A i \in 1..(Len(results) - 1) :
                  \/ results[i].score > results[i + 1].score
                  \/ /\ results[i].score = results[i + 1].score
                     /\ results[i].doc_id < results[i + 1].doc_id
            /\ \A d \in C \ ResultDocs : \A r \in ResultDocs :
                  ~ \/ v.score[d] > v.score[r]
                    \/ (v.score[d] = v.score[r] /\ d < r)

\* C2: every search returns the first min(k, |C|) candidates in the order score
\* descending, then position ascending: the results are candidates, no document
\* twice, adjacent results strictly ordered, no omitted candidate ranking ahead of
\* a returned one; and the same call made again returns the same sequence.
C2_Ranking ==
    /\ []C2_Ranked
    /\ [][(pc = "returned" /\ pc' = "returned" /\ call' = call) => results' = results]_vars

\* a search cut short by its limit, whose one result is not the candidate at the
\* lowest position
C2_Witness ==
    /\ pc = "returned"
    /\ Len(results) = 1
    /\ LET C == CallView.candidates
       IN  Cardinality(C) = 2 /\ \E d \in C : d < results[1].doc_id

\* a search whose two results tie on score
C2_TieWitness ==
    /\ pc = "returned"
    /\ Len(results) = 2
    /\ results[1].score = results[2].score

-----------------------------------------------------------------------------
\* C3 as claimed: the score of every result is the number of distinct query terms
\* that occur in the document's token set, a repeated term counting once.
C3_DistinctTermScore ==
    (pc = "returned" /\ results # <<>>) =>
        LET v == CallView
        IN  \A i \in DOMAIN results : results[i].score = v.distinct[results[i].doc_id]

\* C3 as amended: the score of every result is the number of entries of the query
\* term list (aspect terms followed by opinion terms, or the plain term list) that
\* occur in the document's token set, a repeated term counting once per repetition.
C3_EntryScore ==
    (pc = "returned" /\ results # <<>>) =>
        LET v == CallView
        IN  \A i \in DOMAIN results : results[i].score = v.score[results[i].doc_id]

\* a result of a query that repeats a term, scored above its number of distinct terms
C3_Witness ==
    /\ pc = "returned"
    /\ results # <<>>
    /\ LET v == CallView
       IN  \E i \in DOMAIN results : results[i].score > v.distinct[results[i].doc_id]

-----------------------------------------------------------------------------
\* C4: a Method-1 aspect:opinion search with both sides non-empty and a limit of at
\* least the corpus size returns exactly the boolean candidates the polarity
\* admits: rating > 3 when POSITIVE, rating <= 3 (0 included) when NEGATIVE, all
\* when NEUTRAL; when none is admitted it returns the empty sequence.
C4_PolarityFilter ==
    (pc = "returned" /\ call.engine = "method1" /\ call.top_k >= Len(reviews))
    => LET v == CallView
       IN  v.isAO => /\ ResultDocs = v.admitted
                     /\ (v.admitted = {} => results = <<>>)

\* a NEGATIVE search that kept a document of rating 0 and dropped a candidate
C4_Witness ==
    /\ pc = "returned" /\ call.engine = "method1" /\ call.top_k >= Len(reviews)
    /\ LET v == CallView
       IN  /\ v.isAO
           /\ v.polarity = "NEGATIVE"
           /\ \E d \in ResultDocs : reviews[d + 1].rating = 0
           /\ v.boolean \ ResultDocs # {}

\* a POSITIVE search whose candidates were all filtered out
C4_EmptiedWitness ==
    /\ pc = "returned" /\ call.engine = "method1" /\ call.top_k >= 1
    /\ results = <<>>
    /\ LET v == CallView
       IN  v.isAO /\ v.polarity = "POSITIVE" /\ v.boolean # {}

-----------------------------------------------------------------------------
\* the sequence a plain AND-mode query over the given terms returns: the
\* documents in the postings of every term, each placed by the number of
\* candidates ranking ahead of it, cut to the limit
PlainAndResult(terms, k) ==
    LET C == IF terms = <<>> THEN {}
             ELSE { d \in Positions : \A i \in DOMAIN terms : d \in Postings(terms[i]) }
        sc == [d \in Positions |-> EntriesIn(terms, DocTokenSet(d))]
        ahead(d) == { e \in C : sc[e] > sc[d] \/ (sc[e] = sc[d] /\ e < d) }
    IN  [ i \in 1..Min(k, Cardinality(C)) |->
            LET d == CHOOSE x \in C : Cardinality(ahead(x)) = i - 1
            IN  [doc_id |-> d, score |-> sc[d]] ]

\* C5: a query containing ':' with a side that tokenizes to no terms gets, from the
\* baseline in AND mode and from Method-1, exactly the result of the plain AND
\* query over the terms of the whole raw string.
C5_Fallback ==
    (pc = "returned" /\ call.mode = "and" /\ HasColon(call.query))
    => LET p == _parse_opinion_query(call.query)
       IN  (p.aspect = <<>> \/ p.opinion = <<>>)
           => results = PlainAndResult(_normalize_query(call.query), call.top_k)

\* a Method-1 fallback search with an empty opinion side that returned documents
C5_Witness ==
    /\ pc = "returned" /\ call.engine = "method1" /\ HasColon(call.query)
    /\ _parse_opinion_query(call.query).opinion = <<>>
    /\ results # <<>>

-----------------------------------------------------------------------------
\* the terms the corpus, the stopword list and the typed words can give
KnownTerms ==
    DOMAIN inverted_index \cup stopwords
        \cup UNION { DocTokenSet(d) : d \in Positions }
        \cup { lower(w) : w \in QueryPieces }

\* C6: position d is in the postings of term t exactly when t occurs in the
\* tokenization of document d's body and is no stopword; a term with no such
\* document has no postings.
C6_IndexInvariant ==
    /\ \A d \in Positions :
          LET tokens == DocTokenSet(d)
          IN  \A t \in KnownTerms :
                 d \in Postings(t) <=> (t \in tokens /\ t \notin stopwords)
    /\ \A t \in DOMAIN inverted_index :
          inverted_index[t] # {} /\ inverted_index[t] \subseteq Positions

\* a corpus with a document that repeats a term and one that holds a stopword
C6_Witness ==
    /\ \E d \in Positions :
          LET tokens == _tokenize(reviews[d + 1].text, lowercase)
          IN  \E i, j \in DOMAIN tokens :
                 i # j /\ tokens[i] = tokens[j] /\ d \in Postings(tokens[i])
    /\ \E d \in Positions : DocTokenSet(d) \cap stopwords # {}

-----------------------------------------------------------------------------
\* C7 as claimed: constructing a Review never raises; every field that does not
\* parse as an integer holds 0; rating and both counters are non-negative integers.
C7_ConstructionNeverRaises ==
    pc = "constructed" =>
        /\ raised = "none"
        /\ \A f \in {"rating", "helpful", "out_of_helpful"} :
              /\ review[f] \in Nat
              /\ py_int(ctor_args[f]).exc # "none" => review[f] = 0

-----------------------------------------------------------------------------
\* the classification by two counts
ByCounts(p, n) == IF p > n THEN "positive" ELSE IF n > p THEN "negative" ELSE "neutral"

\* C8 as claimed: the polarity is POSITIVE, NEGATIVE or NEUTRAL by comparing the
\* number of opinion terms in the positive lexicon with the number in the negative
\* one, and repeating an opinion term does not change the classification.
C8_RepetitionKeepsPolarity ==
    pc = "classified" =>
        /\ polarity = ByCounts(EntriesIn(opinion_terms, positive_words),
                               EntriesIn(opinion_terms, negative_words))
        /\ \A i \in DOMAIN opinion_terms :
              _get_opinion_polarity(Append(opinion_terms, opinion_terms[i]),
                                    positive_words, negative_words) = polarity

\* C8 as amended: the polarity compares the number of entries of the opinion-term
\* sequence that are in the positive lexicon with the number of entries that are in
\* the negative one, a repeated term counting once per repetition.
C8_EntryPolarity ==
    pc = "classified" =>
        polarity = ByCounts(EntriesIn(opinion_terms, positive_words),
                            EntriesIn(opinion_terms, negative_words))

\* a term sequence whose repetition decides its polarity: its distinct terms tie
C8_Witness ==
    /\ pc = "classified"
    /\ polarity = "positive"
    /\ positive_words \cap negative_words = {}
    /\ Cardinality(Range(opinion_terms) \cap positive_words)
          = Cardinality(Range(opinion_terms) \cap negative_words)

-----------------------------------------------------------------------------
\* C9: no search step changes the inverted index (its keys or any postings set),
\* the lexicons or the corpus.
C9_SearchFrame ==
    [][ /\ inverted_index' = inverted_index
        /\ reviews' = reviews
        /\ positive_words' = positive_words
        /\ negative_words' = negative_words ]_vars

\* an AND search over two terms whose intersection is non-empty and smaller than
\* the first term's postings
C9_Witness ==
    /\ pc = "returned" /\ call.mode = "and" /\ ~HasColon(call.query)
    /\ call.top_k >= Len(reviews)
    /\ LET terms == _normalize_query(call.query)
       IN  /\ Len(terms) >= 2
           /\ results # <<>>
           /\ ResultDocs # Postings(terms[1])

\* a search with a term the index has no key for
C9_UnknownTermWitness ==
    /\ pc = "returned"
    /\ inverted_index # EmptyIndex
    /\ LET terms == _normalize_query(call.query)
       IN  \E i \in DOMAIN terms : terms[i] \notin DOMAIN inverted_index

-----------------------------------------------------------------------------
\* when a plain AND search and a plain OR search return nothing
C10_Emptiness ==
    (pc = "returned" /\ call.engine = "baseline" /\ ~HasColon(call.query)
        /\ call.top_k >= Len(reviews))
    => LET terms == _normalize_query(call.query)
       IN  terms # <<>> =>
             IF call.mode = "and"
             THEN (\E i \in DOMAIN terms : Postings(terms[i]) = {}) => results = <<>>
             ELSE results = <<>> <=> (\A i \in DOMAIN terms : Postings(terms[i]) = {})

\* C10: for a plain query with a non-empty term list and a limit of at least the
\* corpus size, AND returns nothing as soon as one term has no postings, OR returns
\* nothing only when no term has postings, and the documents AND returns are among
\* those the same query returns in OR mode.
C10_AndSubsetOr ==
    /\ []C10_Emptiness
    /\ [][ ( /\ pc = "returned" /\ pc' = "returned"
             /\ call.engine = "baseline" /\ call.mode = "and"
             /\ call' = [call EXCEPT !.mode = "or"]
             /\ ~HasColon(call.query)
             /\ _normalize_query(call.query) # <<>>
             /\ call.top_k >= Len(reviews) )
           => ResultDocs \subseteq ResultDocs' ]_vars

\* an OR search that returned a document holding every term and one lacking a term
C10_Witness ==
    /\ pc = "returned" /\ call.engine = "baseline" /\ call.mode = "or"
    /\ ~HasColon(call.query)
    /\ call.top_k >= Len(reviews)
    /\ LET terms == _normalize_query(call.query)
       IN  /\ \E d \in ResultDocs : \A i \in DOMAIN terms : d \in Postings(terms[i])
           /\ \E d \in ResultDocs : \E i \in DOMAIN terms : d \notin Postings(terms[i])

-----------------------------------------------------------------------------
\* C11: the score of every result equals the number of entries of the normalized
\* query-term list whose postings set holds the document's position, so scoring
\* against the unfiltered document tokens agrees with the stopword-filtered
\* index; hence every result of a plain AND search scores the length of the term
\* list and the AND results are in position order, every OR result scores at
\* least 1, and every aspect:opinion result scores at least 2.
C11_ScoreAgreesWithIndex ==
    (pc = "returned" /\ results # <<>>) =>
        LET v == CallView
        IN  /\ \A i \in DOMAIN results :
                  results[i].score
                     = Cardinality({ k \in DOMAIN v.terms :
                                        results[i].doc_id \in Postings(v.terms[k]) })
            /\ (~v.isAO /\ call.mode = "and") =>
                  /\ \A i \in DOMAIN results : results[i].score = Len(v.terms)
                  /\ \A i \in 1..(Len(results) - 1) :
                        results[i].doc_id < results[i + 1].doc_id
            /\ (~v.isAO /\ call.mode = "or") =>
                  \A i \in DOMAIN results : results[i].score >= 1
            /\ v.isAO => \A i \in DOMAIN results : results[i].score >= 2

\* an OR search typed with a stopword that returned a document whose body holds
\* that stopword, scored below the number of words typed
C11_Witness ==
    /\ pc = "returned" /\ call.mode = "or" /\ ~HasColon(call.query)
    /\ LET typed == _tokenize(call.query, lowercase)
       IN  \E i \in DOMAIN results :
              /\ \E k \in DOMAIN typed :
                    typed[k] \in stopwords /\ typed[k] \in DocTokenSet(results[i].doc_id)
              /\ results[i].score < Len(typed)

====
